---- MODULE Spec2Model ----
(***************************************************************************)
(* Call graphs, cost aggregation and class graphs of Qualtran bloqs.       *)
(*                                                                         *)
(* A bloq is a record [cls, n, sym, wrap]: its class, its integer          *)
(* construction parameter (bitsize), a symbolic parameter drawn from a     *)
(* SympySymbolAllocator (<<>> when it has none) and the wrappers around it *)
(* (Adjoint, Controlled), outermost first.  Classical constants that do    *)
(* not change the shape of a call graph (mod, k, g) are left out.          *)
(***************************************************************************)
EXTENDS Integers, Sequences, FiniteSets, TLC

(* ---------------------------------------------------------------- bounds *)
\* bitsizes n with which the shim bloqs are constructed: 1..MaxN
MaxN == 3
\* finite values of max_depth: 0..MaxDepth (and None)
MaxDepth == 3
\* the deepest recursion a build may reach
RecursionLimit == 6

\* max_depth = None
None == -1

(* ----------------------------------------------------------------- bloqs *)
Bloq(cls, n) == [cls |-> cls, n |-> n, sym |-> <<>>, wrap |-> <<>>]
SymBloq(cls, n, s) == [cls |-> cls, n |-> n, sym |-> s, wrap |-> <<>>]
\* Bloq.adjoint() / Bloq.controlled(): the default wrappers
Adjoint(b) == [b EXCEPT !.wrap = <<"Adjoint">> \o @]
Controlled(b) == [b EXCEPT !.wrap = <<"Controlled">> \o @]

\* one (bloq, count) pair of a call graph listing
BloqCount(b, c) == [bloq |-> b, count |-> c]

Toffoli == Bloq("Toffoli", 0)
CNOT == Bloq("CNOT", 0)
XGate == Bloq("XGate", 0)
Hadamard == Bloq("Hadamard", 0)

(* ------------------------------------------------- SympySymbolAllocator *)
Prefixes == {"k", "k1"}
\* how many symbols one allocator is asked for
MaxSymbols == 12
\* SympySymbolAllocator(): every per-prefix counter at zero
SympySymbolAllocator == [p \in Prefixes |-> 0]
\* ssa.new_symbol(prefix): the symbol named by the prefix followed by the
\* digits of its counter, and the counter moves on
new_symbol(a, prefix) ==
    [symbol |-> prefix \o ToString(a[prefix]), ssa |-> [a EXCEPT ![prefix] = @ + 1]]

(* ------------------------------------ decomposition rules of the library *)
\* arithmetic/_shims.py
MultiCToffoliCallGraph(b) == << BloqCount(Toffoli, b.n - 2) >>
XorCallGraph(b) == << BloqCount(XGate, b.n) >>
CAddCallGraph(b) == << BloqCount(Toffoli, 2 * b.n) >>
LtCallGraph(b) == << BloqCount(Toffoli, b.n) >>

\* mod_arithmetic/_shims.py: _ModInvInner's time-ordered listing
ModInvInnerListing(b) ==
    << BloqCount(Bloq("MultiCToffoli", b.n + 1), 1),
       BloqCount(CNOT, 1),
       BloqCount(Toffoli, 1),
       BloqCount(Bloq("MultiCToffoli", 3), 1),
       BloqCount(CNOT, 2),
       BloqCount(Bloq("Lt", b.n), 1),
       BloqCount(Bloq("CSwap", b.n), 2),
       BloqCount(Bloq("Subtract", b.n), 1),
       BloqCount(Bloq("Add", b.n), 1),
       BloqCount(CNOT, 1),
       BloqCount(Bloq("ModDbl", b.n), 1),
       BloqCount(Bloq("CHalf", b.n), 1),
       BloqCount(Bloq("CSwap", b.n), 2),
       BloqCount(CNOT, 1) >>

\* summer[bloq] += n, on a defaultdict(lambda: 0); the dict as the sequence of
\* its items in insertion order
SummerAddLost(summer, bloq, n) ==
    IF \E i \in 1..Len(summer) : summer[i].bloq = bloq
    THEN LET i == CHOOSE j \in 1..Len(summer) : summer[j].bloq = bloq
         IN  SubSeq(summer, 1, i - 1) \o <<BloqCount(bloq, n)>>
                 \o SubSeq(summer, i + 1, Len(summer))
    ELSE Append(summer, BloqCount(bloq, n))
SummerAdd(summer, bloq, n) ==
    IF \E i \in 1..Len(summer) : summer[i].bloq = bloq
    THEN LET i == CHOOSE j \in 1..Len(summer) : summer[j].bloq = bloq
         IN  SubSeq(summer, 1, i - 1) \o <<BloqCount(bloq, summer[i].count + n)>>
                 \o SubSeq(summer, i + 1, Len(summer))
    ELSE Append(summer, BloqCount(bloq, n))

RECURSIVE GroupCounts(_, _)
\* for bloq, n in listing: summer[bloq] += n
GroupCounts(listing, summer) ==
    IF listing = <<>> THEN summer
    ELSE GroupCounts(Tail(listing),
                     SummerAdd(summer, Head(listing).bloq, Head(listing).count))

\* _ModInvInner.build_call_graph: set(summer.items())
ModInvInnerCallGraph(b) == GroupCounts(ModInvInnerListing(b), <<>>)

ModInvCallGraph(b) ==
    << BloqCount(Bloq("_ModInvInner", b.n), 2 * b.n),
       BloqCount(Bloq("Negate", b.n), 1),
       BloqCount(Bloq("AddK", b.n), 1),
       BloqCount(Bloq("Swap", b.n), 1) >>

ModNegCallGraph(b) ==
    << BloqCount(Bloq("MultiCToffoli", b.n), 2),
       BloqCount(CNOT, b.n),
       BloqCount(Controlled(Bloq("AddK", b.n)), 1) >>

\* phase_estimation/lp_resource_state.py
LPRSInterimPrepCallGraph(b) ==
    << BloqCount(Bloq("CZPowGate", b.n), b.n),
       BloqCount(Bloq("ZPowGate", b.n), 1),
       BloqCount(Hadamard, 2 + b.n) >>

LPResourceStateCallGraph(b) ==
    << BloqCount(Bloq("LPRSInterimPrep", b.n), 2),
       BloqCount(Adjoint(Bloq("LPRSInterimPrep", b.n)), 1),
       BloqCount(Bloq("Ry", b.n), 3),
       BloqCount(Bloq("MultiControlPauli", b.n + 1), 1),
       BloqCount(XGate, 4),
       BloqCount(Bloq("GlobalPhase", 0), 1),
       BloqCount(Bloq("CZPowGate", 0), 1) >>

\* tutorials/writing-mod-exp: k = ssa.new_symbol('k'); n_exponent multiplies
ModExpCallGraph(b, a) ==
    << BloqCount(SymBloq("CtrlModMul", 32, <<new_symbol(a, "k").symbol>>), b.n) >>

\* cirq_interop/t_complexity_protocol_test.py
\* the callee listed once
SupportsTComplexityBloqViaBuildCallGraphCallGraphOnce(b) ==
    << BloqCount(Bloq("SupportsTComplexityGateWithRegisters", 0), 1) >>
SupportsTComplexityBloqViaBuildCallGraphCallGraph(b) ==
    << BloqCount(Bloq("SupportsTComplexityGateWithRegisters", 0), 5) >>


(* ------------------------------------------- synthetic decompositions *)
\* a root with up to two call sites and three callees with up to one each;
\* the decomposition rules are an input of the build
root == Bloq("Root", 0)
mid == Bloq("Mid", 1)
mid2 == Bloq("Mid", 2)
leaf == Bloq("Leaf", 0)
SynBloqs == {root, mid, mid2, leaf}
SynCallees == {mid, mid2, leaf}
OneSite == {<<c>> : c \in SynCallees}
TwoSites == {<<c, d>> : c \in SynCallees, d \in SynCallees}
SynTables ==
    {[b \in SynBloqs |-> IF b = root THEN r ELSE IF b = mid THEN m
                         ELSE IF b = mid2 THEN m2 ELSE l] :
        r \in {<<>>} \cup OneSite \cup TwoSites,
        m \in {<<>>} \cup OneSite, m2 \in {<<>>} \cup OneSite,
        l \in {<<>>} \cup OneSite}
NoTable == [b \in SynBloqs |-> <<>>]
\* the multiplicity of a caller's i-th call site
SynMult(caller, i) ==
    IF caller = root THEN (IF i = 1 THEN 2 ELSE 3)
    ELSE IF caller = mid THEN 4 ELSE IF caller = mid2 THEN 5 ELSE 6
SynListing(b, table) ==
    [i \in 1..Len(table[b]) |-> BloqCount(table[b][i], SynMult(b, i))]

(* ----------------------------------------------- Bloq.build_call_graph *)
\* classes of the library that override build_call_graph
Overriders == {"MultiCToffoli", "Xor", "CAdd", "Lt", "_ModInvInner", "ModInv",
               "ModNeg", "LPRSInterimPrep", "LPResourceState", "ModExp",
               "SupportsTComplexityBloqViaBuildCallGraph"}
\* classes of the library that declare a signature only
SignatureOnly == {"ModDbl", "CHalf", "ModSub", "CModAdd", "Sub", "SubK", "LtK",
                  "DoesNotSupportTComplexityBloq"}

Ok(sites, a) == [status |-> "ok", sites |-> sites, ssa |-> a]
Raise(e, a) == [status |-> e, sites |-> <<>>, ssa |-> a]

\* b.build_call_graph(ssa): the listing, or the exception raised.  A bloq whose
\* class is defined outside the library files is atomic.
build_call_graph(b, a, table) ==
    IF b.wrap # <<>> THEN Raise("DecomposeTypeError", a)
    ELSE IF b \in SynBloqs THEN Ok(SynListing(b, table), a)
    ELSE IF b.cls = "MultiCToffoli" THEN Ok(MultiCToffoliCallGraph(b), a)
    ELSE IF b.cls = "Xor" THEN Ok(XorCallGraph(b), a)
    ELSE IF b.cls = "CAdd" THEN Ok(CAddCallGraph(b), a)
    ELSE IF b.cls = "Lt" THEN Ok(LtCallGraph(b), a)
    ELSE IF b.cls = "_ModInvInner" THEN Ok(ModInvInnerCallGraph(b), a)
    ELSE IF b.cls = "ModInv" THEN Ok(ModInvCallGraph(b), a)
    ELSE IF b.cls = "ModNeg" THEN Ok(ModNegCallGraph(b), a)
    ELSE IF b.cls = "LPRSInterimPrep" THEN Ok(LPRSInterimPrepCallGraph(b), a)
    ELSE IF b.cls = "LPResourceState" THEN Ok(LPResourceStateCallGraph(b), a)
    ELSE IF b.cls = "ModExp" THEN Ok(ModExpCallGraph(b, a), new_symbol(a, "k").ssa)
    ELSE IF b.cls = "SupportsTComplexityBloqViaBuildCallGraph"
         THEN Ok(SupportsTComplexityBloqViaBuildCallGraphCallGraph(b), a)
    ELSE IF b.cls \in SignatureOnly THEN Raise("DecomposeNotImplementedError", a)
    ELSE Raise("DecomposeTypeError", a)

(* ------------------------------------------------------- generalizers *)
\* a generalizer returns <<bloq>> or <<>> (None: ignore this bloq)
\* erase a numeric parameter, so that bloqs differing only in it merge
generalize_param(b) == IF b.cls = "Mid" THEN <<[b EXCEPT !.n = 1]>> ELSE <<b>>
\* elide a bookkeeping bloq
ignore_leaf(b) == IF b.cls = "Leaf" THEN <<>> ELSE <<b>>
\* ignore_cliffords of get_all_call_graph's pipeline
ignore_cliffords(b) ==
    IF b.wrap = <<>> /\ b.cls \in {"CNOT", "XGate", "Hadamard", "Swap"}
    THEN <<>> ELSE <<b>>
\* CirqGateAsBloq(gate) of a gate with a numeric parameter
CirqGate(gate, n) == [cls |-> "CirqGateAsBloq", n |-> n, sym |-> <<gate>>, wrap |-> <<>>]
\* translate a foreign-interop bloq into its native equivalent, if it has one
cirq_to_bloqs(b) ==
    IF b.wrap # <<>> \/ b.cls # "CirqGateAsBloq" THEN <<b>>
    ELSE IF b.sym = <<"cirq.H">> THEN <<Hadamard>>
    ELSE IF b.sym = <<"cirq.CNOT">> THEN <<CNOT>>
    ELSE IF b.sym = <<"cirq.Rz">> THEN <<Bloq("Rz", b.n)>>
    ELSE <<b>>
\* elide the wiring bloqs
ignore_split_join(b) ==
    IF b.wrap = <<>> /\ b.cls \in {"Split", "Join"} THEN <<>> ELSE <<b>>
\* the symbolic placeholders of a control value and of a rotation angle
CV == <<"cv">>
PHI == <<"_phi">>
\* strip the control values, so that the variants of a controlled bloq merge
generalize_cvs(b) ==
    IF b.wrap = <<>> /\ b.cls = "And" THEN <<[b EXCEPT !.n = 0, !.sym = CV]>> ELSE <<b>>
\* snap the angle of a rotation to a symbolic placeholder
generalize_rotation_angle(b) ==
    IF b.wrap = <<>> /\ b.cls \in {"Rx", "Ry", "Rz"}
    THEN <<[b EXCEPT !.n = 0, !.sym = PHI]>> ELSE <<b>>
\* elide the bookkeeping of qubits
ignore_alloc_free(b) ==
    IF b.wrap = <<>> /\ b.cls \in {"Allocate", "Free"} THEN <<>> ELSE <<b>>
Generalizers ==
    {"identity", "generalize_param", "ignore_leaf", "cirq_to_bloqs", "ignore_split_join",
     "generalize_cvs", "generalize_rotation_angle", "ignore_alloc_free",
     "ignore_cliffords", "composite"}
\* the call rule(b) of one generalizer
ApplyRule(name, b) ==
    IF name = "generalize_param" THEN generalize_param(b)
    ELSE IF name = "ignore_leaf" THEN ignore_leaf(b)
    ELSE IF name = "cirq_to_bloqs" THEN cirq_to_bloqs(b)
    ELSE IF name = "ignore_split_join" THEN ignore_split_join(b)
    ELSE IF name = "generalize_cvs" THEN generalize_cvs(b)
    ELSE IF name = "generalize_rotation_angle" THEN generalize_rotation_angle(b)
    ELSE IF name = "ignore_alloc_free" THEN ignore_alloc_free(b)
    ELSE IF name = "ignore_cliffords" THEN ignore_cliffords(b)
    ELSE <<b>>
\* the pipeline with the translation of foreign bloqs as its last rule
PipelineCirqLast ==
    <<"ignore_split_join", "generalize_cvs", "generalize_rotation_angle",
      "ignore_alloc_free", "ignore_cliffords", "cirq_to_bloqs">>
\* the rules of get_all_call_graph's generalizer, in the order of the call
Pipeline ==
    <<"cirq_to_bloqs", "ignore_split_join", "generalize_cvs",
      "generalize_rotation_angle", "ignore_alloc_free", "ignore_cliffords">>
\* a sub-rule that drops hands the node it was given to the next sub-rule
CompositeStepPastDrop(rules, i, node) ==
    IF ApplyRule(rules[i], node[1]) = <<>> THEN node ELSE ApplyRule(rules[i], node[1])
\* one turn of the composite generalizer's loop: the i-th sub-rule is applied
\* to the running node; <<>> is drop
CompositeStep(rules, i, node) == ApplyRule(rules[i], node[1])
\* the loop is over behind the last sub-rule, or at the first drop
CompositeDone(rules, i, node) == i > Len(rules) \/ node = <<>>
\* the composite generalizer: the loop from its i-th sub-rule on
RECURSIVE CompositeFrom(_, _, _)
CompositeFrom(rules, i, node) ==
    IF CompositeDone(rules, i, node) THEN node
    ELSE CompositeFrom(rules, i + 1, CompositeStep(rules, i, node))
make_composite_generalizer(rules, b) == CompositeFrom(rules, 1, <<b>>)
Generalize(name, b) ==
    IF name = "composite" THEN make_composite_generalizer(Pipeline, b)
    ELSE ApplyRule(name, b)

(* --------------------------------------------------------------- keep *)
\* keep of get_all_call_graph: [keep, warn]
IsInstance(b, classes) == b.wrap = <<>> /\ b.cls \in classes
\* nothing is printed for a decomposition that is not implemented
AllCallGraphKeepSilent(b, table) ==
    IF IsInstance(b, {"IntState"}) /\ (b.sym # <<>> \/ b.n > 64)
    THEN [keep |-> TRUE, warn |-> FALSE]
    ELSE IF b = Toffoli \/ b = Bloq("TGate", 0) THEN [keep |-> TRUE, warn |-> FALSE]
    ELSE IF IsInstance(b, {"Rx", "Ry", "Rz", "XPowGate", "YPowGate", "ZPowGate"})
    THEN [keep |-> TRUE, warn |-> FALSE]
    ELSE IF IsInstance(b, {"CirqGateAsBloq"}) THEN [keep |-> TRUE, warn |-> FALSE]
    ELSE [keep |-> build_call_graph(b, SympySymbolAllocator, table).status # "ok",
          warn |-> FALSE]
\* keep nothing
AllCallGraphKeepNever(b, table) == [keep |-> FALSE, warn |-> FALSE]
AllCallGraphKeep(b, table) ==
    IF IsInstance(b, {"IntState"}) /\ (b.sym # <<>> \/ b.n > 64)
    THEN [keep |-> TRUE, warn |-> FALSE]
    ELSE IF b = Toffoli \/ b = Bloq("TGate", 0) THEN [keep |-> TRUE, warn |-> FALSE]
    ELSE IF IsInstance(b, {"Rx", "Ry", "Rz", "XPowGate", "YPowGate", "ZPowGate"})
    THEN [keep |-> TRUE, warn |-> FALSE]
    ELSE IF IsInstance(b, {"CirqGateAsBloq"}) THEN [keep |-> TRUE, warn |-> FALSE]
    ELSE LET r == build_call_graph(b, SympySymbolAllocator, table) IN
         IF r.status = "DecomposeTypeError" THEN [keep |-> TRUE, warn |-> FALSE]
         ELSE IF r.status = "DecomposeNotImplementedError"
         THEN [keep |-> TRUE, warn |-> TRUE]
         ELSE [keep |-> FALSE, warn |-> FALSE]
\* the keep predicates of the builds: none (keep nothing), one synthetic bloq,
\* or get_all_call_graph's
Keep(name, b, table) ==
    IF name = "all_call_graph" THEN AllCallGraphKeep(b, table)
    ELSE IF name = "mid" THEN [keep |-> b = mid, warn |-> FALSE]
    ELSE [keep |-> FALSE, warn |-> FALSE]

(* ------------------------------------------------------------ state *)
VARIABLES
    args,       \* the build's inputs: roots, generalizer, keep, max_depth, table
    g,          \* the call graph: [nodes, edges], edges maps <<caller, callee>> to n
    visited,    \* memo: bloq -> the least depth it was visited at
    invoked,    \* bloq -> how often the builder invoked its decomposition rule
    returned,   \* bloq -> the listing its decomposition rule returned
    stack,      \* the recursion: frames [bloq, depth, todo], innermost first
    ssa,        \* the SympySymbolAllocator of the build
    warnings,   \* bloqs reported as "decomposition not implemented"
    next_root,  \* index of the next root to build from
    run,        \* 1 in the first build, 2 in a repeated one
    first,      \* the graph of the first build, once a second one has begun
    costs,      \* the outcome of the cost aggregation over g
    g2,         \* the class graph of g
    gcall,      \* a call of the composite generalizer: its sub-rule calls so far
    issued,     \* the names of the symbols an allocator returned, in order
    tc,         \* the t_complexity cache and the last t_complexity call
    ret,        \* the last call of a function of the library: [op, arg, out]
    cbloq,      \* the composite bloq that remove_split_join_pairs works on
    pc          \* "idle", "build", "built", then "costed", "fatal" or "class_graph"
vars ==
    <<args, g, visited, invoked, returned, stack, ssa, warnings, next_root, run,
      first, costs, g2, gcall, issued, tc, ret, cbloq, pc>>

EmptyFn == [x \in {} |-> 0]
EmptyGraph == [nodes |-> {}, edges |-> EmptyFn]

\* g.add_node(b)
AddNode(gr, b) == [gr EXCEPT !.nodes = @ \cup {b}]
\* add an edge caller -> callee with multiplicity n, summing into an existing edge
AddEdge(gr, caller, callee, n) ==
    [nodes |-> gr.nodes \cup {caller, callee},
     edges |-> IF <<caller, callee>> \in DOMAIN gr.edges
               THEN [gr.edges EXCEPT ![<<caller, callee>>] = @ + n]
               ELSE (<<caller, callee>> :> n) @@ gr.edges]

\* the callees of the vertices of S
Callees(gr, S) == {e[2] : e \in {x \in DOMAIN gr.edges : x[1] \in S}}

Min(a, b) == IF a <= b THEN a ELSE b
\* the builder's state as one value
BuildState ==
    [g |-> g, visited |-> visited, invoked |-> invoked, returned |-> returned,
     stack |-> stack, ssa |-> ssa, warnings |-> warnings]

\* max_depth = None never stops the expansion
AtMaxDepthNever(d) == FALSE
\* d == max_depth
AtMaxDepth(d) == d = args.max_depth

\* recurse whenever the bloq is reached at a lower depth than before
ShouldRecurseShallower(s, b, d) == b \notin DOMAIN s.visited \/ s.visited[b] > d
\* recurse whatever was visited before
ShouldRecurseAlways(s, b, d) == TRUE
\* recurse into b at depth d if it was not visited at this or a lower depth; the
\* memo keeps a bloq from being expanded twice
ShouldRecurse(s, b, d) ==
    \/ b \notin DOMAIN s.visited
    \/ s.visited[b] > d /\ b \notin DOMAIN s.invoked

\* the builder's step 2 for the generalized node b at depth d, and the start of
\* step 3: add the vertex; stop at keep, at max_depth and at a bloq without
\* decomposition (with a warning when it is not implemented); else invoke the
\* decomposition rule and open a frame for its callees
Enter(s, b, d) ==
    LET k == Keep(args.keep, b, args.table)
        s1 == [s EXCEPT !.g = AddNode(@, b),
                        !.visited = IF b \in DOMAIN @
                                    THEN [@ EXCEPT ![b] = Min(@, d)]
                                    ELSE (b :> d) @@ @,
                        !.warnings = IF k.warn THEN @ \cup {b} ELSE @]
        r == build_call_graph(b, s.ssa, args.table)
        s2 == [s1 EXCEPT !.invoked = IF b \in DOMAIN @
                                     THEN [@ EXCEPT ![b] = @ + 1]
                                     ELSE (b :> 1) @@ @,
                         !.returned = (b :> r.sites) @@ @]
    IN  IF k.keep \/ AtMaxDepth(d) THEN s1
        ELSE IF r.status = "DecomposeTypeError" THEN s2
        ELSE IF r.status = "DecomposeNotImplementedError"
        THEN [s2 EXCEPT !.warnings = @ \cup {b}]
        ELSE [s2 EXCEPT !.ssa = r.ssa,
                        !.stack = <<[bloq |-> b, depth |-> d, todo |-> r.sites]>> \o @]

\* a root is visited as it is given
RootUngeneralized(s, n) == IF ShouldRecurse(s, n, 0) THEN Enter(s, n, 0) ELSE s
\* step 1 for a root: generalize, skip a dropped root, visit at depth 0
Root(s, n) ==
    LET gn == Generalize(args.generalizer, n) IN
    IF gn = <<>> THEN s
    ELSE IF ShouldRecurse(s, gn[1], 0) THEN Enter(s, gn[1], 0) ELSE s

RemoveAt(seq, i) == SubSeq(seq, 1, i - 1) \o SubSeq(seq, i + 1, Len(seq))

\* step 3 for the callee at position i of the innermost frame's listing:
\* generalize, skip a dropped callee, add the edge, recurse
Callee(s, i) ==
    LET f == Head(s.stack)
        site == f.todo[i]
        gc == Generalize(args.generalizer, site.bloq)
        s1 == [s EXCEPT !.stack = <<[f EXCEPT !.todo = RemoveAt(@, i)]>> \o Tail(@)]
    IN  IF gc = <<>> THEN s1
        ELSE LET c == gc[1]
                 s2 == [s1 EXCEPT !.g = AddEdge(@, f.bloq, c, site.count)]
             IN  IF ShouldRecurse(s2, c, f.depth + 1)
                 THEN Enter(s2, c, f.depth + 1) ELSE s2

Become(s) ==
    /\ g' = s.g
    /\ visited' = s.visited
    /\ invoked' = s.invoked
    /\ returned' = s.returned
    /\ stack' = s.stack
    /\ ssa' = s.ssa
    /\ warnings' = s.warnings

(* ----------------------------------------------------------- the builds *)
Example(cls) == {Bloq(cls, n) : n \in 1..MaxN}
\* bloq.call_graph(max_depth): one root, no generalizer, keep nothing
CallGraphArgs ==
    {[roots |-> <<b>>, generalizer |-> "identity", keep |-> "none",
      max_depth |-> d, table |-> NoTable] :
        b \in Example("ModInv") \cup Example("ModNeg") \cup Example("LPResourceState")
              \cup {Bloq("ModExp", 4), Bloq("SupportsTComplexityBloqViaBuildCallGraph", 0)},
        d \in {None, 1}}
\* get_all_call_graph(bes): the bloq examples' bloqs as roots of one graph
AllCallGraphArgs ==
    {[roots |-> bes, generalizer |-> "composite", keep |-> "all_call_graph",
      max_depth |-> None, table |-> NoTable] :
        bes \in {<<Bloq("ModNeg", n), Bloq("ModInv", n)>> : n \in 1..MaxN}
                \cup {<<Bloq("ModExp", 4), Bloq("ModExp", 4)>>,
                      <<XGate, Bloq("ModNeg", 1)>>,
                      <<Bloq("IntState", 65), Bloq("TGate", 0)>>,
                      <<Bloq("LPResourceState", 1), Bloq("ModDbl", 1)>>}}
\* a build over the synthetic decompositions
SynArgs ==
    {[roots |-> <<root>>, generalizer |-> gen, keep |-> k, max_depth |-> d,
      table |-> t] :
        gen \in {"identity", "generalize_param", "ignore_leaf"},
        k \in {"none", "mid"},
        d \in {None} \cup 0..MaxDepth,
        t \in SynTables}

NoCosts == [status |-> "none"]
EmptyClassGraph == [nodes |-> {}, edges |-> {}]
NoArgs ==
    [roots |-> <<>>, generalizer |-> "identity", keep |-> "none", max_depth |-> None,
     table |-> NoTable]

\* no call of the composite generalizer yet
NoGeneralizerCall ==
    [input |-> <<>>, node |-> <<>>, next |-> 0, calls |-> <<>>, pass |-> 0, orig |-> <<>>]
\* no function of the library was called yet
NoCall == [op |-> "none", arg |-> <<>>, out |-> <<>>]
\* no composite bloq yet
NoCompositeBloq == [connections |-> <<>>, signature |-> <<>>, bloq_instances |-> {}]
\* t_complexity was not called, and its cache is empty
NoTComplexity ==
    [status |-> "none", cache |-> EmptyFn, cleared |-> FALSE, cold |-> FALSE,
     input |-> <<>>, calls |-> EmptyFn, result |-> <<>>]

Init ==
    /\ args = NoArgs
    /\ g = EmptyGraph
    /\ visited = EmptyFn
    /\ invoked = EmptyFn
    /\ returned = EmptyFn
    /\ stack = <<>>
    /\ ssa = SympySymbolAllocator
    /\ warnings = {}
    /\ next_root = 1
    /\ run = 1
    /\ first = EmptyGraph
    /\ costs = NoCosts
    /\ g2 = EmptyClassGraph
    /\ gcall = NoGeneralizerCall
    /\ issued = <<>>
    /\ tc = NoTComplexity
    /\ ret = NoCall
    /\ cbloq = NoCompositeBloq
    /\ pc = "idle"

Begin(a) ==
    /\ args' = a
    /\ pc' = "build"
    /\ UNCHANGED <<ret, cbloq, gcall, issued, tc, g, visited, invoked, returned, stack, ssa, warnings, next_root, run,
                   first,
                   costs, g2>>

\* bloq.call_graph(max_depth=...)
CallGraph == pc = "idle" /\ \E a \in CallGraphArgs : Begin(a)
\* get_all_call_graph(bes)
GetAllCallGraph == pc = "idle" /\ \E a \in AllCallGraphArgs : Begin(a)
\* a build over synthetic decompositions
SynCallGraph == pc = "idle" /\ \E a \in SynArgs : Begin(a)

\* for be in bes: _build_call_graph(bloq=be.make(), ..., depth=0)
BuildRoot ==
    /\ pc = "build" /\ stack = <<>> /\ next_root <= Len(args.roots)
    /\ \E s \in {Root(BuildState, args.roots[next_root])} : Become(s)
    /\ next_root' = next_root + 1
    /\ UNCHANGED <<ret, cbloq, gcall, issued, tc, args, run, first, pc,
                   costs, g2>>

\* one callee of the innermost frame, in any order
BuildCallee ==
    /\ pc = "build" /\ stack # <<>> /\ Len(stack) <= RecursionLimit
    /\ \E i \in 1..Len(Head(stack).todo) :
          \E s \in {Callee(BuildState, i)} : Become(s)
    /\ UNCHANGED <<ret, cbloq, gcall, issued, tc, args, next_root, run, first, pc,
                   costs, g2>>

\* the innermost frame has no callee left: return
BuildReturn ==
    /\ pc = "build" /\ stack # <<>> /\ Head(stack).todo = <<>>
    /\ stack' = Tail(stack)
    /\ UNCHANGED <<ret, cbloq, gcall, issued, tc, args, g, visited, invoked, returned, ssa, warnings, next_root, run, first, pc,
                   costs, g2>>

\* return g
BuildDone ==
    /\ pc = "build" /\ stack = <<>> /\ next_root > Len(args.roots)
    /\ pc' = "built"
    /\ UNCHANGED <<ret, cbloq, gcall, issued, tc, args, g, visited, invoked, returned, stack, ssa, warnings, next_root, run,
                   first,
                   costs, g2>>

\* ssa = SympySymbolAllocator(): every build starts from a fresh allocator
FreshAllocator == SympySymbolAllocator

\* the same build once more: same roots, generalizer, keep and max_depth, an
\* empty graph and memo, a fresh allocator
BuildAgain ==
    /\ pc = "built" /\ run = 1
    /\ first' = g
    /\ run' = 2
    /\ g' = EmptyGraph
    /\ visited' = EmptyFn
    /\ invoked' = EmptyFn
    /\ returned' = EmptyFn
    /\ ssa' = FreshAllocator
    /\ next_root' = 1
    /\ pc' = "build"
    /\ UNCHANGED <<ret, cbloq, gcall, issued, tc, args, stack, warnings,
                   costs, g2>>

(* ---------------------------------------------------- cost aggregation *)
CostKeys == {"QubitCount", "TComplexity"}
TComplexity(t, clifford, rotations) ==
    [t |-> t, clifford |-> clifford, rotations |-> rotations]
\* the arithmetic of a cost kind: TComplexity adds and scales by component
Zero(key) == IF key = "TComplexity" THEN TComplexity(0, 0, 0) ELSE 0
Plus(key, a, b) ==
    IF key = "TComplexity"
    THEN TComplexity(a.t + b.t, a.clifford + b.clifford, a.rotations + b.rotations)
    ELSE a + b
Times(key, n, a) ==
    IF key = "TComplexity" THEN TComplexity(n * a.t, n * a.clifford, n * a.rotations)
    ELSE n * a

\* NotImplemented: the bloq declines
NotImplemented == <<>>
\* the targets left out: self.n
MultiCToffoliStaticCostsN(b, cost_key) ==
    IF cost_key = "QubitCount" THEN <<b.n>> ELSE NotImplemented
\* MultiCToffoli.my_static_costs
MultiCToffoliStaticCosts(b, cost_key) ==
    IF cost_key = "QubitCount" THEN <<b.n + 1>> ELSE NotImplemented
\* SupportsTComplexityGateWithRegisters._t_complexity_
SupportsTComplexityGateWithRegistersTComplexity == TComplexity(1, 2, 0)
\* LPRSInterimPrep._t_complexity_
LPRSInterimPrepTComplexity(b) == TComplexity(0, 2 + b.n, b.n + 1)
\* b.my_static_costs(cost_key), for TComplexity the bloq's _t_complexity_
my_static_costs(b, cost_key) ==
    IF b.wrap # <<>> THEN NotImplemented
    ELSE IF b.cls = "MultiCToffoli" THEN MultiCToffoliStaticCosts(b, cost_key)
    ELSE IF b.cls = "SupportsTComplexityGateWithRegisters" /\ cost_key = "TComplexity"
    THEN <<SupportsTComplexityGateWithRegistersTComplexity>>
    ELSE IF b.cls = "LPRSInterimPrep" /\ cost_key = "TComplexity"
    THEN <<LPRSInterimPrepTComplexity(b)>>
    ELSE IF b.cls = "Cachable1" /\ cost_key = "TComplexity" THEN <<TComplexity(0, 1, 0)>>
    ELSE IF b.cls = "Cachable2" /\ cost_key = "TComplexity" THEN <<TComplexity(0, 0, 0)>>
    ELSE NotImplemented

\* the static cost of a vertex: the leaf cost given for it, else its own
StaticCost(v, key, leaf_costs) ==
    IF v \in DOMAIN leaf_costs THEN <<leaf_costs[v]>> ELSE my_static_costs(v, key)

RECURSIVE SumCallees(_, _, _, _, _)
\* the sum over the edges v -> c, c in cs, of multiplicity x aggregated cost of c
SumCallees(gr, key, cost, v, cs) ==
    IF cs = {} THEN Zero(key)
    ELSE LET c == CHOOSE x \in cs : TRUE IN
         Plus(key, Times(key, gr.edges[<<v, c>>], cost[c]),
              SumCallees(gr, key, cost, v, cs \ {c}))
\* a vertex's total cost: its static cost, if it declares one, plus the sum over
\* its outgoing edges
VertexCost(gr, key, leaf_costs, cost, v) ==
    LET st == StaticCost(v, key, leaf_costs)
        own == IF st = NotImplemented THEN Zero(key) ELSE st[1]
    IN  Plus(key, own, SumCallees(gr, key, cost, v, Callees(gr, {v})))
\* the vertices next in topological order: all their callees have a cost
Ready(gr, cost) == {v \in gr.nodes \ DOMAIN cost : Callees(gr, {v}) \subseteq DOMAIN cost}
\* the cycle passed over: the costs found so far are returned
FatalIgnored(key, leaf_costs, cost, rounds) ==
    [status |-> "ok", key |-> key, leaf_costs |-> leaf_costs, cost |-> cost,
     rounds |-> rounds]
\* a cycle remains: rejected, no cost value
Fatal(key, leaf_costs, cost, rounds) ==
    [status |-> "fatal", key |-> key, leaf_costs |-> leaf_costs, cost |-> EmptyFn,
     rounds |-> rounds]
RECURSIVE Walk(_, _, _, _, _)
\* from the terminal vertices upward; a vertex left without a place in the
\* order lies on a cycle or calls into one: fatal, no cost
Walk(gr, key, leaf_costs, cost, rounds) ==
    IF gr.nodes \subseteq DOMAIN cost
    THEN [status |-> "ok", key |-> key, leaf_costs |-> leaf_costs, cost |-> cost,
          rounds |-> rounds]
    ELSE IF Ready(gr, cost) = {} THEN Fatal(key, leaf_costs, cost, rounds)
    ELSE Walk(gr, key, leaf_costs,
              [v \in DOMAIN cost \cup Ready(gr, cost) |->
                  IF v \in DOMAIN cost THEN cost[v]
                  ELSE VertexCost(gr, key, leaf_costs, cost, v)],
              rounds + 1)
aggregate(gr, key, leaf_costs) == Walk(gr, key, leaf_costs, EmptyFn, 0)

\* leaf costs of the synthetic bloqs
LeafCosts == {EmptyFn, leaf :> 1, mid :> 5 @@ mid2 :> 7, mid :> 5 @@ leaf :> 1}
AggregateArgs ==
    {[key |-> "TComplexity", leaf_costs |-> EmptyFn]}
        \cup {[key |-> "QubitCount", leaf_costs |-> lc] : lc \in LeafCosts}
\* the cost of the built graph's vertices for one cost key
Aggregate ==
    /\ pc = "built"
    /\ \E a \in AggregateArgs : costs' = aggregate(g, a.key, a.leaf_costs)
    /\ pc' = IF costs'.status = "ok" THEN "costed" ELSE "fatal"
    /\ UNCHANGED <<ret, cbloq, gcall, issued, tc, args, g, visited, invoked, returned, stack, ssa, warnings, next_root,
                   run, first, g2>>

(* ---------------------------------------------------------- t_complexity *)
\* the longest collection t_complexity is called with
MaxCollection == 3
\* the objects of the t_complexity tests
TCObjects ==
    {Bloq(cls, 0) : cls \in {"Cachable1", "Cachable2", "DoesNotSupportTComplexityBloq",
                              "SupportsTComplexityGateWithRegisters",
                              "SupportsTComplexityBloqViaBuildCallGraph"}}
\* hash(b): Cachable1 and Cachable2 return hash(2); the other classes hash by
\* value, each to a number of its own
Hash(b) ==
    IF b.cls \in {"Cachable1", "Cachable2"} THEN 2
    ELSE IF b.cls = "DoesNotSupportTComplexityBloq" THEN 11
    ELSE IF b.cls = "SupportsTComplexityGateWithRegisters" THEN 12
    ELSE 13
\* a cost of zero for a bloq no strategy has a cost for
NoStrategyZero(st) == [st EXCEPT !.result = <<Zero("TComplexity")>>]
\* no strategy has a cost for the bloq: None
NoStrategy(st) == [st EXCEPT !.result = <<>>]
\* one t_complexity computation runs on st = [cache, calls, result]: the cache
\* from hash to cost, the number of _t_complexity_ calls per object, and the
\* cost of the object or the running total of the collection, <<>> for None
RECURSIVE TCObject(_, _), TCSum(_, _)
\* the cost of one object: the entry cached under its hash, else its own
\* _t_complexity_, else the sum over its call graph; a cost found is cached
TCObject(x, st) ==
    IF Hash(x) \in DOMAIN st.cache THEN [st EXCEPT !.result = <<st.cache[Hash(x)]>>]
    ELSE LET own == my_static_costs(x, "TComplexity")
             r == build_call_graph(x, SympySymbolAllocator, NoTable)
             found == IF own # NotImplemented
                      THEN [st EXCEPT !.calls[x] = @ + 1, !.result = own]
                      ELSE IF r.status = "ok"
                      THEN TCSum(r.sites, [st EXCEPT !.result = <<Zero("TComplexity")>>])
                      ELSE NoStrategy(st)
         IN  IF found.result = <<>> THEN found
             ELSE [found EXCEPT !.cache = (Hash(x) :> found.result[1]) @@ @]
\* the total over (object, count) pairs, None as soon as one object has no cost
TCSum(sites, st) ==
    IF sites = <<>> THEN st
    ELSE LET one == TCObject(Head(sites).bloq, st) IN
         IF one.result = <<>> THEN one
         ELSE TCSum(Tail(sites),
                    [one EXCEPT !.result =
                        <<Plus("TComplexity", st.result[1],
                               Times("TComplexity", Head(sites).count, one.result[1]))>>])
\* t_complexity(stc) for a collection stc of objects, on the given cache
t_complexity(stc, cache) ==
    TCSum([i \in 1..Len(stc) |-> BloqCount(stc[i], 1)],
          [cache |-> cache, calls |-> [x \in TCObjects |-> 0],
           result |-> <<Zero("TComplexity")>>])
\* the collections t_complexity is called with
TComplexityInputs ==
    UNION {[1..n -> TCObjects] : n \in 1..MaxCollection}

(* ----------------------------------------------------------- class graph *)
\* CirqGateAsBloq(gate): the gate's class in place of the symbol
CirqGateAsBloq(gate) == [cls |-> "CirqGateAsBloq", n |-> 0, sym |-> <<gate>>, wrap |-> <<>>]
\* b.__class__
ClassOf(b) == IF b.wrap = <<>> THEN b.cls ELSE Head(b.wrap)
\* b.subbloq of an Adjoint or Controlled
Subbloq(b) == [b EXCEPT !.wrap = Tail(@)]
\* the wrapper's own class
bloq_to_node_wrapper(b) == ClassOf(b)
bloq_to_node(b) ==
    IF ClassOf(b) = "Adjoint" THEN ClassOf(Subbloq(b))
    ELSE IF ClassOf(b) = "Controlled" THEN ClassOf(Subbloq(b))
    ELSE IF ClassOf(b) = "CirqGateAsBloq" THEN b.sym[1]
    ELSE ClassOf(b)
\* the edges from callee class to caller class
call_graph_to_class_graph_reversed(gr) ==
    [nodes |-> {bloq_to_node(b) : b \in gr.nodes},
     edges |-> {<<bloq_to_node(e[2]), bloq_to_node(e[1])>> : e \in DOMAIN gr.edges}]
\* no edge from a class to itself
call_graph_to_class_graph_no_loops(gr) ==
    [nodes |-> {bloq_to_node(b) : b \in gr.nodes},
     edges |-> {f \in {<<bloq_to_node(e[1]), bloq_to_node(e[2])>> : e \in DOMAIN gr.edges} :
                   f[1] # f[2]}]
\* one vertex per class, an edge between two classes if any of their bloqs has one
call_graph_to_class_graph(gr) ==
    [nodes |-> {bloq_to_node(b) : b \in gr.nodes},
     edges |-> {<<bloq_to_node(e[1]), bloq_to_node(e[2])>> : e \in DOMAIN gr.edges}]
ClassGraph ==
    /\ pc = "built"
    /\ g2' = call_graph_to_class_graph(g)
    /\ pc' = "class_graph"
    /\ UNCHANGED <<ret, cbloq, gcall, issued, tc, args, g, visited, invoked, returned, stack, ssa, warnings, next_root,
                   run, first, costs>>

(* ------------------------------------------------------- wire_symbol *)
\* the register names of the signatures of mod_arithmetic/_shims.py's bloqs
\* that define wire_symbol
ShimSignature(cls) ==
    IF cls \in {"ModSubK", "ModNeg"} THEN {"x"}
    ELSE IF cls \in {"CModSubK", "CModNeg"} THEN {"ctrl", "x"}
    ELSE IF cls = "CModSub" THEN {"ctrl", "x", "y"}
    ELSE IF cls = "ModMul" THEN {"x", "y", "out"}
    ELSE {"x", "out"}
ShimClasses ==
    {"ModSubK", "CModSubK", "CModSub", "_ModInvInner", "ModInv", "ModMul", "ModDbl",
     "ModSq", "ModNeg", "CModNeg"}
\* bloq.wire_symbol(reg), reg = <<>> for None and <<name>> for a register:
\* the kind of the symbol returned, "None" where the method falls off its
\* end, "ValueError" where it raises
wire_symbol(cls, reg) ==
    IF reg = <<>> THEN "Text"
    ELSE IF reg[1] \in ShimSignature(cls) THEN "WireSymbol"
    ELSE IF cls \in {"ModSubK", "CModSubK", "ModSq"} THEN "None"
    ELSE "ValueError"
\* the functions of the library that return without changing a state are
\* called from "idle" and leave their result in ret
Return(op, arg, out) ==
    /\ pc = "idle"
    /\ ret' = [op |-> op, arg |-> arg, out |-> out]
    /\ pc' = "returned"
    /\ UNCHANGED <<args, g, visited, invoked, returned, stack, ssa, warnings, next_root,
                   run, first, costs, g2, gcall, issued, tc, cbloq>>
WireSymbolCall ==
    \E cls \in ShimClasses, reg \in {<<>>, <<"ctrl">>, <<"x">>, <<"y">>, <<"out">>, <<"t">>} :
        Return("wire_symbol", <<cls, reg>>, wire_symbol(cls, reg))

(* ------------------------------------------------- SubK.on_classical_vals *)
\* math.fmod(a, N) for integers a and N > 0: the remainder of the division
\* truncated toward zero, with the sign of a
fmod(a, N) == IF a >= 0 THEN a % N ELSE -((-a) % N)
\* SubK(n, k).on_classical_vals(x)['x']
SubKOnClassicalVals(n, k, x) == fmod(x - k, 2 ^ (n - 1))
\* the values of an n-bit signed integer
QInt(n) == -(2 ^ (n - 1))..(2 ^ (n - 1) - 1)
SubKCall ==
    \E n \in 1..MaxN : \E k, x \in QInt(n) :
        Return("SubK.on_classical_vals", <<n, k, x>>, SubKOnClassicalVals(n, k, x))

(* ------------------------- SpecializedSingleQubitControlledExtension *)
\* MyGate(control_val) of the class's docstring, and a subclass that overrides
\* get_single_qubit_controlled_bloq to return a bloq of a foreign class
MyGate(cls, control_val) == [cls |-> cls, control_val |-> control_val]
\* CtrlSpec: the shapes of its control registers and, per register, its
\* control values (ctrl_spec.cvs[i], flattened)
CtrlSpecs ==
    {[shapes |-> <<sh>>, cvs |-> <<[i \in 1..1 |-> cv]>>] : sh \in {<<>>, <<1>>}, cv \in {0, 1}}
    \cup {[shapes |-> <<<<2>>>>, cvs |-> <<<<cv, 1>>>>] : cv \in {0, 1}}
    \cup {[shapes |-> <<<<>>, <<>>>>, cvs |-> <<<<cv>>, <<1>>>>] : cv \in {0, 1}}
\* control_registers of MyGate: () for control_val None, else one register
control_registers(b) == IF b.control_val = None THEN <<>> ELSE <<"control">>
\* the controlled bloq is always controlled by 1
get_single_qubit_controlled_bloq_on(b, control_val) ==
    IF b.cls = "Overriding" THEN MyGate("Foreign", None)
    ELSE [b EXCEPT !.control_val = 1]
\* attrs.evolve(self, control_val=control_val), unless overridden
get_single_qubit_controlled_bloq(b, control_val) ==
    IF b.cls = "Overriding" THEN MyGate("Foreign", None)
    ELSE [b EXCEPT !.control_val = control_val]
\* the output soquet of a register of the added bloq
OutSoq(reg, soq) == <<"out", reg, soq>>
\* adder(bb, ctrl_soqs, in_soqs) of get_single_reg_ctrl_system: the control
\* soquet goes to register ctrl_reg_name, the dict in_soqs to the others, and
\* the outputs come back as (ctrl_soqs, the other outputs)
adder(ctrl_reg_name, ctrl_soqs, in_soqs) ==
    IF Len(ctrl_soqs) # 1 THEN [raised |-> "ValueError"]
    ELSE LET soqs == in_soqs @@ (ctrl_reg_name :> ctrl_soqs[1])
             outs == [r \in DOMAIN soqs |-> OutSoq(r, soqs[r])]
         IN  [raised |-> "", ctrl_soqs |-> <<outs[ctrl_reg_name]>>,
              out_soqs |-> {outs[r] : r \in DOMAIN outs \ {ctrl_reg_name}}]
\* self.get_ctrl_system(ctrl_spec), its adder called with (ctrl_soqs, in_soqs)
get_ctrl_system(b, ctrl_spec, ctrl_soqs, in_soqs) ==
    IF b.control_val = None /\ ctrl_spec.shapes \in {<<<<>>>>, <<<<1>>>>}
    THEN LET ctrl_bloq == get_single_qubit_controlled_bloq(b, ctrl_spec.cvs[1][1]) IN
         IF ctrl_bloq.cls = "Foreign" THEN [kind |-> "TypeError"]
         ELSE [kind |-> "specialized", ctrl_bloq |-> ctrl_bloq,
               added |-> adder(control_registers(ctrl_bloq)[1], ctrl_soqs, in_soqs)]
    ELSE [kind |-> "default"]
GetCtrlSystemCall ==
    \E b \in {MyGate(cls, cv) : cls \in {"MyGate", "Overriding"}, cv \in {None, 0, 1}},
       ctrl_spec \in CtrlSpecs,
       ctrl_soqs \in {<<"c">>, <<"c", "d">>, <<>>},
       in_soqs \in {("q" :> "s"), ("q" :> "s") @@ ("r" :> "t")} :
        Return("get_ctrl_system", <<b, ctrl_spec, ctrl_soqs, in_soqs>>,
               get_ctrl_system(b, ctrl_spec, ctrl_soqs, in_soqs))

(* ------------------------------------------- remove_split_join_pairs *)
MaxBits == 2
MaxStages == 4
\* the dangling boundaries, which carry no index
LeftDangle == [bloq |-> "LeftDangle", i |-> None]
RightDangle == [bloq |-> "RightDangle", i |-> None]
BloqInstance(bloq, i) == [bloq |-> bloq, i |-> i]
Soquet(binst, reg, idx) == [binst |-> binst, reg |-> reg, idx |-> idx]
Connection(left, right) == [left |-> left, right |-> right]
CompositeBloq(connections, signature, bloq_instances) ==
    [connections |-> connections, signature |-> signature, bloq_instances |-> bloq_instances]
\* bb.add(bloq, ...): the instance gets the next index, and its incoming
\* connections are stored in the order of its registers.  Join and the n-bit
\* bloq X take the n current bit soquets (X takes bit sigma[k] on q[k]); Split
\* and the bloq W take the one wide soquet.
AddStage(st, stage, sigma) ==
    LET binst == BloqInstance(stage, Cardinality(st.binsts))
        reg == IF stage \in {"Join", "Split"} THEN "reg" ELSE "q"
        ins == IF st.wide THEN <<Connection(st.cur[1], Soquet(binst, reg, <<>>))>>
               ELSE [k \in 1..st.n |->
                        Connection(st.cur[IF stage = "X" THEN sigma[k] ELSE k],
                                   Soquet(binst, reg, <<k - 1>>))]
        wide == stage \in {"Join", "W"}
    IN  [st EXCEPT !.cxns = st.cxns \o ins, !.binsts = st.binsts \cup {binst},
                   !.wide = wide,
                   !.cur = IF wide THEN <<Soquet(binst, reg, <<>>)>>
                           ELSE [k \in 1..st.n |-> Soquet(binst, reg, <<k - 1>>)]]
RECURSIVE AddStages(_, _, _, _)
AddStages(st, stages, k, sigma) ==
    IF k > Len(stages) THEN st ELSE AddStages(AddStage(st, stages[k], sigma), stages, k + 1, sigma)
RECURSIVE StagesFit(_, _, _)
StagesFit(wide, stages, k) ==
    IF k > Len(stages) THEN TRUE
    ELSE /\ (IF wide THEN stages[k] \in {"Split", "W"} ELSE stages[k] \in {"Join", "X"})
         /\ StagesFit(stages[k] \in {"Join", "W"}, stages, k + 1)
\* A composite bloq as a BloqBuilder makes it: register x (n bits, or one
\* wide register) goes through the stages; an optional register y goes through
\* one more bloq (a Join or a one-qubit bloq Z) to the right boundary;
\* finalize stores the connections to the right boundary last.
BuildCompositeBloq(n, wide, stages, sigma, by) ==
    LET st0 == [cxns |-> <<>>, binsts |-> {}, n |-> n, wide |-> wide,
                cur |-> IF wide THEN <<Soquet(LeftDangle, "x", <<>>)>>
                        ELSE [k \in 1..n |-> Soquet(LeftDangle, "x", <<k - 1>>)]]
        st1 == AddStages(st0, stages, 1, sigma)
        ybinst == BloqInstance(by, Cardinality(st1.binsts))
        yin == IF by = "Join"
               THEN [k \in 1..n |-> Connection(Soquet(LeftDangle, "y", <<k - 1>>),
                                                Soquet(ybinst, "reg", <<k - 1>>))]
               ELSE IF by = "Z"
               THEN <<Connection(Soquet(LeftDangle, "y", <<>>), Soquet(ybinst, "q", <<>>))>>
               ELSE <<>>
        xout == IF st1.wide THEN <<Connection(st1.cur[1], Soquet(RightDangle, "x", <<>>))>>
                ELSE [k \in 1..n |->
                         Connection(st1.cur[sigma[k]], Soquet(RightDangle, "x", <<k - 1>>))]
        yout == IF by = "" THEN <<>>
                ELSE <<Connection(Soquet(ybinst, IF by = "Join" THEN "reg" ELSE "q", <<>>),
                                  Soquet(RightDangle, "y", <<>>))>>
    IN  CompositeBloq(st1.cxns \o yin \o xout \o yout, <<n, wide, st1.wide, by>>,
                      st1.binsts \cup (IF by = "" THEN {} ELSE {ybinst}))
FlatInputs ==
    UNION {{BuildCompositeBloq(n, x[1], x[2], sigma, by) :
                sigma \in Permutations(1..n), by \in {"", "Z", "Join"},
                x \in {y \in BOOLEAN \X UNION {[1..len -> {"Join", "Split", "X", "W"}] :
                                                   len \in 0..MaxStages} :
                          StagesFit(y[1], y[2], 1)}} :
           n \in 1..MaxBits}
\* the connections into and out of binst, in their stored order
binst_to_cxns(binst, cb) ==
    <<SelectSeq(cb.connections, LAMBDA c : c.right.binst = binst),
      SelectSeq(cb.connections, LAMBDA c : c.left.binst = binst)>>
\* the orders in which iter_bloqnections can yield the instances
RECURSIVE TopologicalSorts(_, _)
TopologicalSorts(cb, remaining) ==
    IF remaining = {} THEN {<<>>}
    ELSE UNION {{<<b>> \o o : o \in TopologicalSorts(cb, remaining \ {b})} :
                  b \in {x \in remaining :
                            \A k \in 1..Len(cb.connections) :
                                cb.connections[k].right.binst = x
                                    => cb.connections[k].left.binst \notin remaining}}
NoPair == [marked |-> {}, left_side_cxns |-> <<>>, right_side_cxns |-> <<>>]
\* the scan gives up at the first Join that goes to the right boundary
RECURSIVE ScanUntilDangle(_, _, _)
ScanUntilDangle(cb, order, k) ==
    IF k > Len(order) THEN NoPair
    ELSE LET binst == order[k]
             preds == binst_to_cxns(binst, cb)[1]
             succs == binst_to_cxns(binst, cb)[2]
             next_binst == succs[1].right.binst
         IN  IF binst.bloq # "Join" THEN ScanUntilDangle(cb, order, k + 1)
             ELSE IF next_binst = RightDangle THEN NoPair
             ELSE IF next_binst.bloq = "Split"
             THEN LET next_succs == binst_to_cxns(next_binst, cb)[2] IN
                  [marked |-> {binst.i, next_binst.i},
                   left_side_cxns |-> [p \in 1..Len(preds) |-> preds[p].left],
                   right_side_cxns |-> [p \in 1..Len(next_succs) |-> next_succs[p].right]]
             ELSE ScanUntilDangle(cb, order, k + 1)
\* the for loop of _remove_one_split_join_pair from position k of the order:
\* the first Join followed by a Split, with the soquets left of the Join and
\* right of the Split
RECURSIVE Scan(_, _, _)
Scan(cb, order, k) ==
    IF k > Len(order) THEN NoPair
    ELSE LET binst == order[k]
             preds == binst_to_cxns(binst, cb)[1]
             succs == binst_to_cxns(binst, cb)[2]
             next_binst == succs[1].right.binst
         IN  IF binst.bloq # "Join" THEN Scan(cb, order, k + 1)
             ELSE IF next_binst = RightDangle THEN Scan(cb, order, k + 1)
             ELSE IF next_binst.bloq = "Split"
             THEN LET next_succs == binst_to_cxns(next_binst, cb)[2] IN
                  [marked |-> {binst.i, next_binst.i},
                   left_side_cxns |-> [p \in 1..Len(preds) |-> preds[p].left],
                   right_side_cxns |-> [p \in 1..Len(next_succs) |-> next_succs[p].right]]
             ELSE Scan(cb, order, k + 1)
\* only the Join is dropped from the instances
new_binsts_join_only(cb, marked) ==
    {binst \in cb.bloq_instances : binst.i \notin marked \/ \E j \in marked : j < binst.i}
new_binsts(cb, marked) == {binst \in cb.bloq_instances : binst.i \notin marked}
\* the kept connections in their order, then zip(left_side_cxns, right_side_cxns)
new_cxns(cb, found) ==
    SelectSeq(cb.connections,
              LAMBDA cxn : /\ ~(cxn.left.binst # LeftDangle /\ cxn.left.binst.i \in found.marked)
                           /\ ~(cxn.right.binst # RightDangle /\ cxn.right.binst.i \in found.marked))
    \o [p \in 1..Min(Len(found.left_side_cxns), Len(found.right_side_cxns)) |->
            Connection(found.left_side_cxns[p], found.right_side_cxns[p])]
remove_one_split_join_pair(cb, order) ==
    LET found == Scan(cb, order, 1) IN
    IF found.marked = {} THEN [raised |-> "StopIteration", cbloq |-> cb]
    ELSE [raised |-> "",
          cbloq |-> CompositeBloq(new_cxns(cb, found), cb.signature, new_binsts(cb, found.marked))]
\* ret = cbloq
FlattenBegin ==
    /\ pc = "idle"
    /\ \E flat \in FlatInputs :
        /\ cbloq' = flat
        /\ ret' = [op |-> "remove_split_join_pairs", arg |-> <<flat>>, out |-> <<>>]
    /\ pc' = "removing"
    /\ UNCHANGED <<args, g, visited, invoked, returned, stack, ssa, warnings, next_root,
                   run, first, costs, g2, gcall, issued, tc>>
\* ret = _remove_one_split_join_pair(ret)
RemoveOne ==
    /\ pc = "removing"
    /\ \E order \in TopologicalSorts(cbloq, cbloq.bloq_instances) :
        \E r \in {remove_one_split_join_pair(cbloq, order)} :
            /\ r.raised = ""
            /\ cbloq' = r.cbloq
    /\ UNCHANGED <<args, g, visited, invoked, returned, stack, ssa, warnings, next_root,
                   run, first, costs, g2, gcall, issued, tc, ret, pc>>
\* except StopIteration: return ret
RemoveStop ==
    /\ pc = "removing"
    /\ \E order \in TopologicalSorts(cbloq, cbloq.bloq_instances) :
        remove_one_split_join_pair(cbloq, order).raised = "StopIteration"
    /\ ret' = [ret EXCEPT !.out = <<cbloq>>]
    /\ pc' = "flattened"
    /\ UNCHANGED <<args, g, visited, invoked, returned, stack, ssa, warnings, next_root,
                   run, first, costs, g2, gcall, issued, tc, cbloq>>
remove_split_join_pairs == RemoveOne \/ RemoveStop

(* --------------------------------------- class graphs of wrapped bloqs *)
\* how many wrappers a bloq is nested in
MaxWrap == 2
RECURSIVE Wrappings(_, _)
\* b.adjoint() and b.controlled(), applied up to k times to the bloqs of S; no
\* wrapper is put directly around a wrapper of its own kind
Wrappings(S, k) ==
    IF k = 0 THEN S
    ELSE Wrappings(S \cup {Adjoint(b) : b \in {x \in S : ClassOf(x) # "Adjoint"}}
                     \cup {Controlled(b) : b \in {x \in S : ClassOf(x) # "Controlled"}},
                   k - 1)
\* call graphs of one edge between bloqs in up to MaxWrap wrappers
WrappedGraphs ==
    {AddEdge(EmptyGraph, a, b, 1) :
        a \in {Bloq("LPResourceState", 1), Bloq("ModNeg", 1)},
        b \in Wrappings({Bloq("LPRSInterimPrep", 1), Bloq("AddK", 1)}, MaxWrap)}
\* call_graph_to_class_graph(g) for a given call graph
ClassGraphOf ==
    /\ pc = "idle"
    /\ \E gr \in WrappedGraphs : g' = gr /\ g2' = call_graph_to_class_graph(gr)
    /\ pc' = "class_graph_of"
    /\ UNCHANGED <<ret, cbloq, args, visited, invoked, returned, stack, ssa, warnings, next_root,
                   run, first, costs, gcall, issued, tc>>

(* ------------------------------------------ the composite generalizer *)
\* the bloqs the composite generalizer is called with
GeneralizerInputs ==
    {CirqGate("cirq.H", 0), CirqGate("cirq.CNOT", 0), CirqGate("cirq.QFT", 0),
     Bloq("Split", 1), Bloq("Join", 1), Bloq("Allocate", 1), Bloq("Free", 1),
     CNOT, XGate, Hadamard, Toffoli, Adjoint(Hadamard), Controlled(XGate)}
    \cup {CirqGate("cirq.Rz", n) : n \in 1..MaxN}
    \cup {Bloq(cls, n) : cls \in {"Rx", "Ry", "Rz", "ZPowGate", "ModNeg"}, n \in 1..MaxN}
    \cup {Controlled(Bloq("Rz", n)) : n \in 1..MaxN}
    \cup {Bloq("And", cvs) : cvs \in 0..3}
GeneralizerBegin(b, pass, orig) ==
    /\ gcall' = [input |-> <<b>>, node |-> <<b>>, next |-> 1, calls |-> <<>>,
               pass |-> pass, orig |-> orig]
    /\ pc' = "generalize"
    /\ UNCHANGED <<ret, cbloq, args, g, visited, invoked, returned, stack, ssa, warnings, next_root,
                   run, first, costs, g2, issued, tc>>
\* generalize(b)
GeneralizerCall == pc = "idle" /\ \E b \in GeneralizerInputs : GeneralizerBegin(b, 1, <<b>>)
\* the loop calls its next sub-rule with the running node
GeneralizerRule ==
    /\ pc = "generalize" /\ ~CompositeDone(Pipeline, gcall.next, gcall.node)
    /\ gcall' = [gcall EXCEPT !.calls = Append(@, [rule |-> Pipeline[gcall.next],
                                               arg |-> gcall.node[1]]),
                          !.node = CompositeStep(Pipeline, gcall.next, gcall.node),
                          !.next = @ + 1]
    /\ UNCHANGED <<ret, cbloq, args, g, visited, invoked, returned, stack, ssa, warnings, next_root,
                   run, first, costs, g2, issued, tc, pc>>
\* the composite generalizer returns the running node, or drop
GeneralizerReturn ==
    /\ pc = "generalize" /\ CompositeDone(Pipeline, gcall.next, gcall.node)
    /\ pc' = "generalized"
    /\ UNCHANGED <<ret, cbloq, args, g, visited, invoked, returned, stack, ssa, warnings, next_root,
                   run, first, costs, g2, gcall, issued, tc>>
\* generalize(generalize(b)), for a b that was not dropped
GeneralizerAgain ==
    /\ pc = "generalized" /\ gcall.pass = 1 /\ gcall.node # <<>>
    /\ GeneralizerBegin(gcall.node[1], 2, gcall.orig)
(* ------------------------------------------------- the symbol allocator *)
\* ssa.new_symbol(prefix) on one allocator
NewSymbol ==
    /\ pc \in {"idle", "symbols"} /\ Len(issued) < MaxSymbols
    /\ \E prefix \in Prefixes :
          /\ ssa' = new_symbol(ssa, prefix).ssa
          /\ issued' = Append(issued, new_symbol(ssa, prefix).symbol)
    /\ pc' = "symbols"
    /\ UNCHANGED <<ret, cbloq, args, g, visited, invoked, returned, stack, warnings, next_root,
                   run, first, costs, g2, gcall, tc>>

(* ------------------------------------------------- the t_complexity calls *)
\* t_complexity(stc): the total, or TypeError if it is None
TComplexityCall ==
    /\ pc \in {"idle", "t_complexity"}
    /\ \E stc \in TComplexityInputs :
          \E st \in {t_complexity(stc, tc.cache)} :
              tc' = [status |-> IF st.result = <<>> THEN "TypeError" ELSE "ok",
                     cache |-> st.cache, cleared |-> FALSE, cold |-> tc.cleared,
                     input |-> stc, calls |-> st.calls, result |-> st.result]
    /\ pc' = "t_complexity"
    /\ UNCHANGED <<ret, cbloq, args, g, visited, invoked, returned, stack, ssa, warnings, next_root,
                   run, first, costs, g2, gcall, issued>>
\* t_complexity.cache_clear()
CacheClear ==
    /\ pc \in {"idle", "t_complexity"}
    /\ tc' = [tc EXCEPT !.cache = EmptyFn, !.cleared = TRUE]
    /\ pc' = "t_complexity"
    /\ UNCHANGED <<ret, cbloq, args, g, visited, invoked, returned, stack, ssa, warnings, next_root,
                   run, first, costs, g2, gcall, issued>>

GeneralizerStep == GeneralizerCall \/ GeneralizerRule \/ GeneralizerReturn \/ GeneralizerAgain

BuildStep == BuildRoot \/ BuildCallee \/ BuildReturn \/ BuildDone
Build == CallGraph \/ GetAllCallGraph \/ SynCallGraph \/ BuildStep
Next == Build \/ Aggregate \/ ClassGraph
Spec == Init /\ [][Next]_vars

\* the builds over the synthetic decompositions, the self-recursive ones among
\* them; the builder is one synchronous computation: once called it keeps running
NextSyn == SynCallGraph \/ BuildStep
FairSpec == Init /\ [][NextSyn]_vars /\ WF_vars(BuildStep)

\* two builds from the same inputs
\* the calls of the generalizer, of the allocator and of t_complexity
NextUnit ==
    \/ GeneralizerStep \/ NewSymbol \/ TComplexityCall \/ CacheClear \/ ClassGraphOf
    \/ WireSymbolCall \/ SubKCall \/ GetCtrlSystemCall
UnitSpec == Init /\ [][NextUnit]_vars

NextTwice == Build \/ BuildAgain
SpecTwice == Init /\ [][NextTwice]_vars
NextFlat == FlattenBegin \/ remove_split_join_pairs
FlatSpec == Init /\ [][NextFlat]_vars /\ WF_vars(remove_split_join_pairs)

(* ------------------------------------------------------------- claims *)
RECURSIVE ListedCount(_, _, _)
\* the sum of the counts of the sites of a listing that generalize to c
ListedCount(sites, gen, c) ==
    IF sites = <<>> THEN 0
    ELSE (IF Generalize(gen, Head(sites).bloq) = <<c>> THEN Head(sites).count ELSE 0)
         + ListedCount(Tail(sites), gen, c)
Listed(sites, gen, c) ==
    \E i \in 1..Len(sites) : Generalize(gen, sites[i].bloq) = <<c>>

\* C1: in the built graph the edges out of every expanded caller are exactly
\* the generalized callees of the listing its decomposition returned, one edge
\* per callee, whose multiplicity is the sum of the counts of the call sites
\* that generalize to that callee; and _ModInvInner.build_call_graph returns
\* one pair per distinct bloq of its time-ordered listing, with the summed count
C1_MultiplicityConservation ==
    pc = "built" =>
        /\ \A e \in DOMAIN g.edges : e[1] \in DOMAIN returned
        /\ \A b \in DOMAIN returned :
            /\ \A i \in 1..Len(returned[b]) :
                 LET gc == Generalize(args.generalizer, returned[b][i].bloq) IN
                 gc # <<>> => <<b, gc[1]>> \in DOMAIN g.edges
            /\ \A c \in g.nodes :
                 IF Listed(returned[b], args.generalizer, c)
                 THEN /\ <<b, c>> \in DOMAIN g.edges
                      /\ g.edges[<<b, c>>] = ListedCount(returned[b], args.generalizer, c)
                 ELSE <<b, c>> \notin DOMAIN g.edges
        /\ \A b \in DOMAIN returned : b.cls = "_ModInvInner" =>
            LET out == returned[b]
                listing == ModInvInnerListing(b)
            IN  /\ \A i, j \in 1..Len(out) : out[i].bloq = out[j].bloq => i = j
                /\ {out[i].bloq : i \in 1..Len(out)}
                     = {listing[i].bloq : i \in 1..Len(listing)}
                /\ \A i \in 1..Len(out) :
                     out[i].count = ListedCount(listing, "identity", out[i].bloq)

\* C1 witness: a caller was expanded whose listing names one callee (after
\* generalization) at two call sites, and the edge carries the sum
C1_Witness ==
    /\ pc = "built"
    /\ \E b \in DOMAIN returned : \E i, j \in 1..Len(returned[b]) :
         LET gi == Generalize(args.generalizer, returned[b][i].bloq)
             gj == Generalize(args.generalizer, returned[b][j].bloq)
         IN  /\ i < j /\ gi # <<>> /\ gi = gj
             /\ g.edges[<<b, gi[1]>>] = returned[b][i].count + returned[b][j].count

\* the generalized roots that are not dropped
Roots ==
    {Generalize(args.generalizer, args.roots[i])[1] :
        i \in {j \in 1..Len(args.roots) : Generalize(args.generalizer, args.roots[j]) # <<>>}}
RECURSIVE Within(_, _, _)
\* the vertices at most d edges away from a vertex of S
Within(gr, S, d) == IF d = 0 THEN S ELSE Within(gr, S \cup Callees(gr, S), d - 1)
HasCallees(b) ==
    LET r == build_call_graph(b, SympySymbolAllocator, args.table) IN
    r.status = "ok" /\ r.sites # <<>>

\* C2: with max_depth = d no bloq is expanded at depth d or deeper: a bloq
\* whose least visit depth is d has no outgoing edge and its decomposition rule
\* was not invoked, and every vertex of the built graph lies within d edges of
\* a root
C2_DepthBound ==
    args.max_depth # None =>
        /\ \A i \in 1..Len(stack) : stack[i].depth < args.max_depth
        /\ \A b \in DOMAIN visited : visited[b] <= args.max_depth
        /\ \A b \in DOMAIN visited : visited[b] = args.max_depth =>
              /\ b \notin DOMAIN invoked
              /\ \A e \in DOMAIN g.edges : e[1] # b
        /\ pc = "built" => g.nodes \subseteq Within(g, Roots, args.max_depth)

\* C2 witness: a build with max_depth = 1 ended with a vertex at depth 1 that
\* has a decomposition with callees and was left unexpanded
C2_Witness ==
    /\ pc = "built" /\ args.max_depth = 1
    /\ \E b \in g.nodes :
         /\ visited[b] = 1 /\ HasCallees(b) /\ ~Keep(args.keep, b, args.table).keep
         /\ \A e \in DOMAIN g.edges : e[1] # b

\* C3: every build ends, and no bloq is expanded a second time, whatever the
\* decompositions, also when a bloq's decomposition contains that bloq (or one
\* of its callers) again, max_depth is None and keep is false for it
C3_SelfRecursionTerminates ==
    (pc = "build") ~> (pc = "built" /\ \A b \in DOMAIN invoked : invoked[b] = 1)

\* C3 witness: a build with max_depth = None ended in which an expanded bloq,
\* not kept, lists itself as a callee
C3_Witness ==
    /\ pc = "built" /\ args.max_depth = None
    /\ \E b \in DOMAIN invoked :
         /\ ~Keep(args.keep, b, args.table).keep
         /\ Listed(returned[b], args.generalizer, b)
         /\ invoked[b] = 1

\* some vertex reaches itself along one or more edges
HasCycle(gr) ==
    \E v \in gr.nodes : v \in Within(gr, Callees(gr, {v}), Cardinality(gr.nodes))

\* the recursion limit is never reached
StackBelowLimit == Len(stack) < RecursionLimit

\* C4: the built call graph has no directed cycle and no self-loop
C4_NoCycle == pc = "built" => ~HasCycle(g)

\* C5: a second build from the same roots, generalizer,
\* keep and max_depth with a fresh allocator yields the vertices and the edge
\* multiplicities of the first
C5_Deterministic == (pc = "built" /\ run = 2) => g = first

\* the static cost of v in the aggregation that was run, 0 when v declines
Own(v) ==
    LET st == StaticCost(v, costs.key, costs.leaf_costs) IN
    IF st = NotImplemented THEN Zero(costs.key) ELSE st[1]
RECURSIVE EdgeSum(_, _)
\* the sum over the edges of es of multiplicity x the callee's aggregated cost
EdgeSum(v, es) ==
    IF es = {} THEN Zero(costs.key)
    ELSE LET e == CHOOSE x \in es : TRUE IN
         Plus(costs.key, Times(costs.key, g.edges[e], costs.cost[e[2]]),
              EdgeSum(v, es \ {e}))
OutEdges(v) == {e \in DOMAIN g.edges : e[1] = v}
SupportsTComplexityBloqViaBuildCallGraph ==
    Bloq("SupportsTComplexityBloqViaBuildCallGraph", 0)

\* C6: after an aggregation every vertex's cost is its static cost (if it has
\* one) plus the sum over its outgoing edges of multiplicity x the callee's
\* cost; a root with edges to terminal A (x3, cost 5) and terminal B (x2,
\* cost 7) costs 29; SupportsTComplexityBloqViaBuildCallGraph, whose call graph
\* is {(SupportsTComplexityGateWithRegisters(), 5)}, costs TComplexity(t=5, clifford=10)
C6_AdditiveAggregation ==
    pc = "costed" =>
        /\ \A v \in g.nodes : costs.cost[v] = Plus(costs.key, Own(v), EdgeSum(v, OutEdges(v)))
        /\ ( /\ g.edges = (<<root, mid>> :> 3 @@ <<root, mid2>> :> 2)
             /\ costs.key = "QubitCount"
             /\ costs.leaf_costs = (mid :> 5 @@ mid2 :> 7) )
           => costs.cost[root] = 29
        /\ ( /\ costs.key = "TComplexity"
             /\ SupportsTComplexityBloqViaBuildCallGraph \in DOMAIN invoked )
           => costs.cost[SupportsTComplexityBloqViaBuildCallGraph] = TComplexity(5, 10, 0)

\* C6 witness: the graph root -> A x3, root -> B x2 with leaf costs 5 and 7 was
\* aggregated, to 29
C6_Witness ==
    /\ pc = "costed" /\ costs.key = "QubitCount"
    /\ g.edges = (<<root, mid>> :> 3 @@ <<root, mid2>> :> 2)
    /\ costs.leaf_costs = (mid :> 5 @@ mid2 :> 7)
    /\ costs.cost[root] = 29

RECURSIVE PathWeight(_, _)
RECURSIVE PathWeightSum(_, _, _)
\* the sum over the paths from v to w of the product of their multiplicities
PathWeight(v, w) ==
    IF v = w THEN 1 ELSE PathWeightSum(v, w, Callees(g, {v}))
PathWeightSum(v, w, cs) ==
    IF cs = {} THEN 0
    ELSE LET c == CHOOSE x \in cs : TRUE IN
         g.edges[<<v, c>>] * PathWeight(c, w) + PathWeightSum(v, w, cs \ {c})
RECURSIVE WeightedOwn(_, _)
WeightedOwn(v, ws) ==
    IF ws = {} THEN 0
    ELSE LET w == CHOOSE x \in ws : TRUE IN
         PathWeight(v, w) * Own(w) + WeightedOwn(v, ws \ {w})
ThreeLevels == <<root, mid>> :> 2 @@ <<mid, leaf>> :> 4

\* C7: multiplicities multiply along paths: a vertex's aggregated cost is the
\* sum over the vertices w of (the sum over the paths to w of the product of
\* the multiplicities) x the static cost of w; for root -> 2 x mid,
\* mid -> 4 x leaf with leaf cost 1 the root costs 8, and the class graph of
\* that call graph has exactly the edges Root -> Mid and Mid -> Leaf
C7_PathsMultiply ==
    /\ (pc = "costed" /\ costs.key = "QubitCount") =>
          /\ \A v \in g.nodes : costs.cost[v] = WeightedOwn(v, g.nodes)
          /\ (g.edges = ThreeLevels /\ costs.leaf_costs = (leaf :> 1))
                => costs.cost[root] = 8
    /\ (pc = "class_graph" /\ g.edges = ThreeLevels) =>
          g2.edges = {<<"Root", "Mid">>, <<"Mid", "Leaf">>}

\* C7 witness: the 3-level graph was aggregated with leaf cost 1, to 8
C7_Witness ==
    /\ pc = "costed" /\ costs.key = "QubitCount"
    /\ g.edges = ThreeLevels /\ costs.leaf_costs = (leaf :> 1)
    /\ costs.cost[root] = 8

\* C8: a vertex whose bloq supplies a static cost for the cost key has that
\* value as its own cost, its whole cost when it has no callee; a vertex whose
\* bloq declines gets its cost from its decomposition, the sum over its edges;
\* MultiCToffoli(n) supplies n + 1 for QubitCount and declines every other key
C8_StaticCost ==
    pc = "costed" =>
        \A v \in g.nodes :
            LET st == my_static_costs(v, costs.key) IN
            /\ (v.cls = "MultiCToffoli" /\ v.wrap = <<>>) =>
                  /\ costs.key = "QubitCount" =>
                        costs.cost[v] = (v.n + 1) + EdgeSum(v, OutEdges(v))
                  /\ costs.key # "QubitCount" =>
                        /\ st = NotImplemented
                        /\ costs.cost[v] = EdgeSum(v, OutEdges(v))
            /\ v \notin DOMAIN costs.leaf_costs =>
                  /\ (st # NotImplemented /\ OutEdges(v) = {}) => costs.cost[v] = st[1]
                  /\ st = NotImplemented => costs.cost[v] = EdgeSum(v, OutEdges(v))

\* C8 witness: QubitCount was aggregated over a graph with a MultiCToffoli and
\* with a vertex that declines and has callees
C8_Witness ==
    /\ pc = "costed" /\ costs.key = "QubitCount"
    /\ \E v \in g.nodes :
         /\ v.cls = "MultiCToffoli" /\ v.n = 3
         /\ costs.cost[v] = 4 + EdgeSum(v, OutEdges(v))
    /\ \E v \in g.nodes :
         /\ my_static_costs(v, costs.key) = NotImplemented /\ OutEdges(v) # {}
         /\ costs.cost[v] = EdgeSum(v, OutEdges(v))

\* C9: an aggregation over a call graph with a directed cycle or a self-loop
\* ends fatally, with no cost value, after at most one round per vertex
C9_CycleIsFatal ==
    (pc \in {"costed", "fatal"} /\ HasCycle(g)) =>
        /\ pc = "fatal" /\ costs.status = "fatal"
        /\ costs.cost = EmptyFn
        /\ costs.rounds <= Cardinality(g.nodes)

\* C9 witness: an aggregation over a graph with a self-loop ended fatally
C9_Witness ==
    /\ pc = "fatal" /\ costs.cost = EmptyFn
    /\ \E v \in g.nodes : <<v, v>> \in DOMAIN g.edges

\* C10: the vertices of the class graph are the classes of the call graph's
\* vertices, one per class whatever the bloqs' parameters, where an Adjoint(A)
\* or a Controlled(A) counts as A's class and not as the wrapper's
C10_ClassGraphVertices ==
    pc = "class_graph" =>
        /\ g2.nodes = {b.cls : b \in g.nodes}
        /\ "Adjoint" \notin g2.nodes /\ "Controlled" \notin g2.nodes
        /\ Cardinality(g2.nodes) = Cardinality({b.cls : b \in g.nodes})

\* C10 witness: the class graph of a call graph with A and Adjoint(A), and not
\* the class Adjoint
C10_Witness ==
    /\ pc = "class_graph"
    /\ \E b \in g.nodes : b.wrap = <<"Adjoint">> /\ Subbloq(b) \in g.nodes
                          /\ b.cls \in g2.nodes
    /\ "Adjoint" \notin g2.nodes

\* C11: the class graph has the edge K1 -> K2 exactly if some edge b1 -> b2 of
\* the call graph has b1 of class K1 and b2 of class K2, so that an edge
\* between two bloqs of one class is a self-loop; its edges are bare pairs of
\* classes, without multiplicity
C11_ClassGraphEdges ==
    pc = "class_graph" =>
        /\ \A K1, K2 \in g2.nodes :
              <<K1, K2>> \in g2.edges
                  <=> \E e \in DOMAIN g.edges : e[1].cls = K1 /\ e[2].cls = K2
        /\ g2.edges \subseteq g2.nodes \X g2.nodes

\* C11 witness: the class graph of a call graph with an edge between two
\* distinct bloqs of one class has the self-loop of that class
C11_Witness ==
    /\ pc = "class_graph"
    /\ \E e \in DOMAIN g.edges : e[1] # e[2] /\ e[1].cls = e[2].cls
    /\ <<"Mid", "Mid">> \in g2.edges

\* the output of the i-th sub-rule call of the composite generalizer
CallOutput(i) == ApplyRule(gcall.calls[i].rule, gcall.calls[i].arg)
\* C13: the composite generalizer calls cirq_to_bloqs, ignore_split_join,
\* generalize_cvs, generalize_rotation_angle, ignore_alloc_free and
\* ignore_cliffords in this order, each with the output of the one before;
\* after a sub-rule returned drop no further sub-rule is called and the result
\* is drop
C13_OrderAndShortCircuit ==
    pc \in {"generalize", "generalized"} =>
        /\ Len(gcall.calls) <= 6
        /\ \A i \in 1..Len(gcall.calls) :
              /\ gcall.calls[i].rule =
                     <<"cirq_to_bloqs", "ignore_split_join", "generalize_cvs",
                       "generalize_rotation_angle", "ignore_alloc_free",
                       "ignore_cliffords">>[i]
              /\ gcall.calls[i].arg = IF i = 1 THEN gcall.input[1] ELSE CallOutput(i - 1)[1]
              /\ CallOutput(i) = <<>> => i = Len(gcall.calls) /\ gcall.node = <<>>
        /\ pc = "generalized" =>
              /\ gcall.node # <<>> => Len(gcall.calls) = 6
              /\ gcall.node = CallOutput(Len(gcall.calls))

\* C13 witness: a call that returned drop after fewer sub-rule calls than the
\* pipeline has rules, the second of them with the output of the first
C13_Witness ==
    /\ pc = "generalized" /\ gcall.node = <<>>
    /\ Len(gcall.calls) \in 2..5
    /\ gcall.calls[2].arg = CallOutput(1)[1]

\* C12: the composite generalizer of get_all_call_graph, applied to its own
\* result on a node, returns that result again
C12_Idempotent ==
    pc = "generalized" /\ gcall.pass = 2 => gcall.node = gcall.input

\* C12 witness: a second application on a result that differs from the node
\* it was computed from
C12_Witness ==
    /\ pc = "generalized" /\ gcall.pass = 2
    /\ gcall.input # gcall.orig
    /\ gcall.node = gcall.input

\* the generalizer of the build maps b to drop
Dropped(b) == Generalize(args.generalizer, b) = <<>>
\* C14: no bloq that the generalizer maps to drop is a vertex or an endpoint of
\* an edge of the call graph, be it a root or a callee, and none is expanded;
\* every vertex is the generalizer's output for a root or for a listed callee
C14_DroppedNeverInGraph ==
    pc \in {"build", "built"} =>
        /\ \A v \in g.nodes : ~Dropped(v)
        /\ \A e \in DOMAIN g.edges : e[1] \in g.nodes /\ e[2] \in g.nodes
        /\ \A i \in 1..Len(args.roots) : Dropped(args.roots[i]) => args.roots[i] \notin g.nodes
        /\ \A b \in DOMAIN invoked : ~Dropped(b)
        /\ pc = "built" =>
              \A v \in g.nodes :
                  \/ v \in Roots
                  \/ \E e \in DOMAIN g.edges :
                        e[2] = v /\ Listed(returned[e[1]], args.generalizer, v)

\* C14 witness: a built graph with vertices, one of whose roots and one of
\* whose listed callees the generalizer maps to drop
C14_Witness ==
    /\ pc = "built" /\ g.nodes # {}
    /\ \E i \in 1..Len(args.roots) : Dropped(args.roots[i])
    /\ \E b \in DOMAIN returned : \E j \in 1..Len(returned[b]) : Dropped(returned[b][j].bloq)

\* v is a vertex without outgoing edge whose decomposition was never invoked
Terminal(v) == v \notin DOMAIN invoked /\ \A e \in DOMAIN g.edges : e[1] # v
\* C15: a bloq the keep predicate holds for has no outgoing edge in the call
\* graph, even if it has a decomposition rule, and is a vertex with the edge
\* from every caller that lists it; under get_all_call_graph's keep this is so
\* for Toffoli, TGate, Rx, Ry, Rz, XPowGate, YPowGate, ZPowGate, every
\* CirqGateAsBloq and every IntState of symbolic bitsize or of bitsize above 64
C15_KeptIsTerminal ==
    /\ pc \in {"build", "built"} /\ args.keep = "all_call_graph" =>
          \A v \in g.nodes :
              (\/ v = Toffoli \/ v = Bloq("TGate", 0)
               \/ v.wrap = <<>> /\ v.cls \in {"Rx", "Ry", "Rz", "XPowGate", "YPowGate",
                                              "ZPowGate", "CirqGateAsBloq"}
               \/ v.wrap = <<>> /\ v.cls = "IntState" /\ (v.sym # <<>> \/ v.n > 64))
              => Terminal(v)
    /\ pc = "built" =>
          /\ \A v \in g.nodes : Keep(args.keep, v, args.table).keep => Terminal(v)
          /\ \A b \in DOMAIN returned : \A i \in 1..Len(returned[b]) :
                LET gc == Generalize(args.generalizer, returned[b][i].bloq) IN
                gc # <<>> /\ Keep(args.keep, gc[1], args.table).keep
                    => gc[1] \in g.nodes /\ <<b, gc[1]>> \in DOMAIN g.edges

\* C15 witness: a built graph with a kept vertex that has a decomposition rule
\* with callees, an edge from a caller and no outgoing edge
C15_Witness ==
    /\ pc = "built"
    /\ \E e \in DOMAIN g.edges :
          /\ Keep(args.keep, e[2], args.table).keep
          /\ HasCallees(e[2])
          /\ Terminal(e[2])

\* C16: every symbol that new_symbol returns has a name distinct from the names
\* of all symbols the same allocator returned before, whatever the prefixes of
\* the calls, "k" and "k1" included
C16_FreshNames ==
    \A i, j \in 1..Len(issued) : i # j => issued[i] # issued[j]

\* how the decomposition of b ends: "ok" or the name of the error it raises
DecomposeStatus(b) == build_call_graph(b, SympySymbolAllocator, args.table).status
\* C17: a bloq whose decomposition raises DecomposeTypeError or
\* DecomposeNotImplementedError is a terminal vertex, and the build goes on to
\* its end with the other callees and roots; the bloqs warned about are those
\* whose decomposition was tried and raised DecomposeNotImplementedError, none
\* of them one whose decomposition raised DecomposeTypeError
C17_FailureIsTerminal ==
    pc = "built" =>
        /\ \A v \in g.nodes :
              DecomposeStatus(v) # "ok" => \A e \in DOMAIN g.edges : e[1] # v
        /\ Roots \subseteq g.nodes
        /\ \A b \in DOMAIN returned : \A i \in 1..Len(returned[b]) :
              ~Dropped(returned[b][i].bloq)
                  => Generalize(args.generalizer, returned[b][i].bloq)[1] \in g.nodes
        /\ \A v \in g.nodes :
              v \in warnings
                  <=> /\ DecomposeStatus(v) = "DecomposeNotImplementedError"
                      /\ v \in DOMAIN invoked \/ args.keep = "all_call_graph"

\* C17 witness: a built graph with a warning for each of two bloqs whose
\* decomposition is not implemented, and a vertex without warning whose
\* decomposition raised DecomposeTypeError
C17_Witness ==
    /\ pc = "built"
    /\ \E v, w \in warnings : v # w
    /\ \E v \in g.nodes \ warnings : DecomposeStatus(v) = "DecomposeTypeError"
    /\ \E e \in DOMAIN g.edges : e[2] \in warnings

RECURSIVE OwnTotal(_)
\* the sum, over the objects of a collection, of the cost t_complexity computes
\* for the object alone on an empty cache
OwnTotal(stc) ==
    IF stc = <<>> THEN Zero("TComplexity")
    ELSE Plus("TComplexity", t_complexity(<<Head(stc)>>, EmptyFn).result[1],
              OwnTotal(Tail(stc)))
\* the objects of a collection that have a cost
Supported(stc) == \A i \in 1..Len(stc) : t_complexity(<<stc[i]>>, EmptyFn).result # <<>>
\* C18: a t_complexity call that follows cache_clear returns the cost computed
\* from the objects it is given, and for none of them the cached cost of an
\* unequal object with the same hash: for Cachable2 zero, not the clifford=1
\* of Cachable1
C18_NoStaleCostAfterClear ==
    tc.status # "none" /\ tc.cold /\ Supported(tc.input) =>
        tc.status = "ok" /\ tc.result = <<OwnTotal(tc.input)>>

\* C19: in one t_complexity computation over a collection that holds the same
\* object several times, _t_complexity_ of that object is called exactly once,
\* and the total is the sum of the costs of the occurrences
C19_OneCallPerObject ==
    tc.status = "ok" /\ tc.cold =>
        \A x \in TCObjects :
            my_static_costs(x, "TComplexity") # NotImplemented
                /\ Cardinality({i \in 1..Len(tc.input) : tc.input[i] = x}) >= 2
            => tc.calls[x] = 1 /\ tc.result = <<OwnTotal(tc.input)>>

\* C20: t_complexity of a bloq without _t_complexity_, without call graph and
\* without decomposition raises TypeError and returns no cost
C20_UnsupportedRaisesTypeError ==
    tc.status # "none" =>
        \A i \in 1..Len(tc.input) :
            /\ my_static_costs(tc.input[i], "TComplexity") = NotImplemented
            /\ build_call_graph(tc.input[i], SympySymbolAllocator, NoTable).status # "ok"
            => tc.status = "TypeError" /\ tc.result = <<>>

\* C20 witness: t_complexity(DoesNotSupportTComplexityBloq()) ended in TypeError
C20_Witness ==
    /\ tc.input = <<Bloq("DoesNotSupportTComplexityBloq", 0)>>
    /\ tc.status = "TypeError"

\* C22: in one build the builder invokes the decomposition rule of a bloq at
\* most once, however many callers and roots lead to the bloq
C22_InvokedAtMostOnce ==
    \A b \in DOMAIN invoked : invoked[b] <= 1

\* C22 witness: a built graph in which a bloq that two distinct callers list
\* was expanded, its decomposition rule invoked once
C22_Witness ==
    /\ pc = "built"
    /\ \E b \in DOMAIN invoked :
          /\ invoked[b] = 1 /\ HasCallees(b)
          /\ \E e, f \in DOMAIN g.edges : e[2] = b /\ f[2] = b /\ e[1] # f[1]

\* C23: with a finite max_depth the expanded bloqs do not depend on the order
\* of the visits: every vertex of the built graph that lies fewer than
\* max_depth edges away from a root, has a decomposition with callees and is
\* not kept was expanded, on its first visit or on a later one at a lower depth
C23_ExpandedWhateverTheOrder ==
    pc = "built" /\ args.max_depth > 0 =>
        \A v \in Within(g, Roots, args.max_depth - 1) :
            HasCallees(v) /\ ~Keep(args.keep, v, args.table).keep
                => v \in DOMAIN invoked

\* C24: the class vertex of a bloq in any nesting of Adjoint and Controlled
\* wrappers is the class of the innermost wrapped bloq, and never Adjoint or
\* Controlled
C24_InnermostClass ==
    pc = "class_graph_of" =>
        /\ g2.nodes = {b.cls : b \in g.nodes}
        /\ "Adjoint" \notin g2.nodes /\ "Controlled" \notin g2.nodes

\* C25: every multiplicity a decomposition rule with integer parameters
\* returns is a positive integer: the counts of all listings returned in a
\* build, among them the Toffoli count n - 2 of MultiCToffoli(n) as ModNeg(n)
\* and _ModInvInner(n) build it for n >= 1
C25_PositiveIntegerCounts ==
    pc = "built" =>
        \A b \in DOMAIN returned : \A i \in 1..Len(returned[b]) :
            returned[b][i].count >= 1

\* C26: wire_symbol of every bloq of mod_arithmetic/_shims.py, called with a
\* register whose name is not in the bloq's signature, raises ValueError
C26_UnknownRegisterRaises ==
    ret.op = "wire_symbol" /\ ret.arg[2] # <<>>
        /\ ret.arg[2][1] \notin ShimSignature(ret.arg[1])
    => ret.out = "ValueError"

\* C27: SubK(n, k).on_classical_vals(x), for x and k n-bit signed integers, is
\* an n-bit signed integer congruent to x - k modulo 2^n
C27_SubKWrapsAround ==
    ret.op = "SubK.on_classical_vals" =>
        /\ ret.out \in QInt(ret.arg[1])
        /\ (ret.out - (ret.arg[3] - ret.arg[2])) % (2 ^ ret.arg[1]) = 0

\* the control spec of C21's call is one control register of one qubit
OneQubitSpec == Len(ret.arg[2].shapes) = 1 /\ ret.arg[2].shapes[1] \in {<<>>, <<1>>}
\* C21: get_ctrl_system of a bloq with control_val None, for a control spec of
\* one qubit, returns the bloq with control_val, and nothing else, set to the
\* spec's control value, and an adder that takes exactly one control soquet,
\* wires it to the control register and returns that register's output apart
\* from the other outputs; it raises TypeError if the specialized bloq has no
\* control_registers, and with control_val set or another spec it defers to
\* the default construction
C21_SpecializedControl ==
    ret.op = "get_ctrl_system" =>
        LET b == ret.arg[1]
            cv == ret.arg[2].cvs[1][1]
            ctrl_soqs == ret.arg[3]
            in_soqs == ret.arg[4]
        IN  IF b.control_val # None \/ ~OneQubitSpec THEN ret.out.kind = "default"
            ELSE IF b.cls = "Overriding" THEN ret.out.kind = "TypeError"
            ELSE /\ ret.out.kind = "specialized"
                 /\ ret.out.ctrl_bloq = [cls |-> b.cls, control_val |-> cv]
                 /\ IF Len(ctrl_soqs) # 1 THEN ret.out.added.raised = "ValueError"
                    ELSE /\ ret.out.added.raised = ""
                         /\ ret.out.added.ctrl_soqs = <<<<"out", "control", ctrl_soqs[1]>>>>
                         /\ ret.out.added.out_soqs
                                = {<<"out", r, in_soqs[r]>> : r \in DOMAIN in_soqs}

\* C21 witness: the specialized control system for control value 0, its adder
\* called with one control soquet
C21_Witness ==
    /\ ret.op = "get_ctrl_system" /\ ret.out.kind = "specialized"
    /\ ret.arg[1].control_val = None /\ ret.out.ctrl_bloq.control_val = 0
    /\ ret.out.added.raised = ""

\* a successful step of _remove_one_split_join_pair inside the loop
RemovedOnePair == pc = "removing" /\ pc' = "removing" /\ cbloq' # cbloq
Connections(cb) == {cb.connections[k] : k \in 1..Len(cb.connections)}
JoinThenSplit(cb) ==
    {c \in Connections(cb) : c.left.binst.bloq = "Join" /\ c.right.binst.bloq = "Split"}

\* C28: remove_split_join_pairs terminates: every successful step returns a
\* composite bloq with exactly two instances fewer, a Join and a Split; the
\* loop stops at the first step that finds no pair and returns the last
\* composite bloq
C28_Terminates ==
    /\ [][RemovedOnePair =>
            /\ cbloq'.bloq_instances \subseteq cbloq.bloq_instances
            /\ Cardinality(cbloq'.bloq_instances) = Cardinality(cbloq.bloq_instances) - 2
            /\ {b.bloq : b \in cbloq.bloq_instances \ cbloq'.bloq_instances} = {"Join", "Split"}]_vars
    /\ [][(pc = "removing" /\ pc' = "flattened") =>
            /\ JoinThenSplit(cbloq) = {}
            /\ ret'.out = <<cbloq>>]_vars
    /\ [][(pc = "removing" /\ JoinThenSplit(cbloq) = {}) => pc' = "flattened"]_vars
    /\ (pc = "removing") ~> (pc = "flattened")

\* C28 witness: the loop has stopped after two successful steps
C28_Witness ==
    /\ pc = "flattened"
    /\ Cardinality(ret.arg[1].bloq_instances) = Cardinality(ret.out[1].bloq_instances) + 4

\* C29: the result of remove_split_join_pairs has no Join whose output goes to
\* a Split; a Join whose output goes to the right dangling boundary is never
\* removed; the function applied to its own result changes nothing
C29_NoPairLeft ==
    /\ pc \in {"removing", "flattened"} =>
        \A c \in Connections(ret.arg[1]) :
            (c.left.binst.bloq = "Join" /\ c.right.binst = RightDangle)
                => c.left.binst \in cbloq.bloq_instances /\ c \in Connections(cbloq)
    /\ pc = "flattened" =>
        /\ JoinThenSplit(ret.out[1]) = {}
        /\ \A order \in TopologicalSorts(ret.out[1], ret.out[1].bloq_instances) :
              remove_one_split_join_pair(ret.out[1], order)
                  = [raised |-> "StopIteration", cbloq |-> ret.out[1]]

\* C29 witness: the result for an input with a run of two consecutive
\* join/split pairs and a Join that goes to the right boundary
C29_Witness ==
    /\ pc = "flattened"
    /\ \E c, d \in JoinThenSplit(ret.arg[1]) :
          \E e \in Connections(ret.arg[1]) : e.left.binst = c.right.binst /\ e.right.binst = d.left.binst
    /\ \E c \in Connections(ret.out[1]) : c.left.binst.bloq = "Join" /\ c.right.binst = RightDangle

\* C30: one step removes exactly the chosen Join, the Split after it and the
\* connections touching either, leaves every other instance, every other
\* connection and the signature as they were, and adds one connection per bit
\* from the source of the Join's input i to the destination of the Split's
\* output i, whatever the stored order of the connections
C30_StepFrame ==
    [][RemovedOnePair =>
        \E c \in JoinThenSplit(cbloq) :
            LET removed == {c.left.binst, c.right.binst}
                kept == {k \in Connections(cbloq) :
                            k.left.binst \notin removed /\ k.right.binst \notin removed}
                bits == {p \in Connections(cbloq) \X Connections(cbloq) :
                            /\ p[1].right.binst = c.left.binst
                            /\ p[2].left.binst = c.right.binst
                            /\ p[1].right.idx = p[2].left.idx}
                added == {Connection(p[1].left, p[2].right) : p \in bits}
            IN  /\ cbloq'.bloq_instances = cbloq.bloq_instances \ removed
                /\ cbloq'.signature = cbloq.signature
                /\ Connections(cbloq') = kept \cup added
                /\ Len(cbloq'.connections) = Cardinality(kept) + Cardinality(bits)]_vars

====
